---- MODULE Spec2Model ----
(***************************************************************************)
(* Batch image pipeline of batch-image-tool: the two worker handlers of    *)
(* src/workers/image.worker.ts (the external-model handler, "ext", and the *)
(* built-in heuristic handler, "heur"), the filename utilities of          *)
(* src/utils/filenameUtils.ts and the options form of UploadDropzone.      *)
(*                                                                         *)
(* Strings are sequences of one-character strings; the eight template      *)
(* placeholders are single tokens ("{name}", "{ext}", ...).                *)
(*                                                                         *)
(* Specifications: Spec, LiveSpec, DetailSpec and MaskSpec run one batch   *)
(* through a worker handler; ConcurrentSpec runs two batches through the   *)
(* heur handler; UiSpec is the component; SanitizeSpec, GeometrySpec,      *)
(* CornerSpec, RemoveBackgroundSpec, EdgeColorSpec and DoneSpec apply one  *)
(* function to an input.                                                   *)
(***************************************************************************)
EXTENDS Integers, Sequences, FiniteSets, TLC

\* ---------------------------------------------------------------- bounds
MaxImages == 2
MaxClock == 1
MaxModelTicks == 1

\* -------------------------------------------------------- string helpers
DigitChars == <<"0", "1", "2", "3", "4", "5", "6", "7", "8", "9">>

RECURSIVE NatStr(_)
NatStr(n) ==
    IF n < 10 THEN <<DigitChars[n + 1]>>
    ELSE NatStr(n \div 10) \o <<DigitChars[(n % 10) + 1]>>

\* Number.prototype.toString() of an integer
IntStr(n) == IF n < 0 THEN <<"-">> \o NatStr(0 - n) ELSE NatStr(n)

\* String.prototype.replace(/tok/g, rep) for a one-token pattern
RECURSIVE ReplaceAll(_, _, _)
ReplaceAll(s, tok, rep) ==
    IF s = <<>> THEN <<>>
    ELSE (IF Head(s) = tok THEN rep ELSE <<Head(s)>>)
         \o ReplaceAll(Tail(s), tok, rep)

\* String.prototype.lastIndexOf(c), 0-based, -1 when absent
LastIndexOf(s, c) ==
    LET hits == {k \in 1..Len(s) : s[k] = c}
    IN  IF hits = {} THEN 0 - 1
        ELSE (CHOOSE k \in hits : \A j \in hits : j <= k) - 1

\* String.prototype.substring(a, b) for 0 <= a <= b <= length
Substring(s, a, b) == SubSeq(s, a + 1, b)

\* String.prototype.endsWith(suffix)
EndsWith(s, suffix) ==
    /\ Len(suffix) <= Len(s)
    /\ SubSeq(s, Len(s) - Len(suffix) + 1, Len(s)) = suffix

Gcd(a, b) ==
    LET RECURSIVE G(_, _)
        G(x, y) == IF y = 0 THEN x ELSE G(y, x % y)
    IN  G(a, b)

\* --------------------------------------------------------------- formats
FormatStr(f) ==
    CASE f = "jpeg" -> <<"j", "p", "e", "g">>
      [] f = "png"  -> <<"p", "n", "g">>
      [] f = "webp" -> <<"w", "e", "b", "p">>

Formats == {"jpeg", "png", "webp"}

NoPreset == <<"<null>">>
NoTemplate == <<"<undefined>">>
DefaultTemplate == <<"{name}", "_", "{index}">>

\* ------------------------------------------------------ filenameUtils.ts
ForbiddenChars == {"/", "\\", "?", "%", "*", ":", "|", "\"", "<", ">"}
MaxFilenameLength == 200
Untitled == <<"u", "n", "t", "i", "t", "l", "e", "d">>

\* filename.replace(/[/\\?%*:|"<>]/g, '-')
ReplaceForbidden(s) ==
    [k \in 1..Len(s) |-> IF s[k] \in ForbiddenChars THEN "-" ELSE s[k]]

\* safeFilename.replace(/--+/g, '-')
\* (halves are collapsed on their own; a run of hyphens across the cut
\* loses the hyphen right of it)
RECURSIVE CollapseHyphens(_)
CollapseHyphens(s) ==
    IF Len(s) < 2 THEN s
    ELSE LET mid == Len(s) \div 2
             left == CollapseHyphens(SubSeq(s, 1, mid))
             right == CollapseHyphens(SubSeq(s, mid + 1, Len(s)))
         IN  IF left[Len(left)] = "-" /\ right[1] = "-"
             THEN left \o Tail(right) ELSE left \o right

RECURSIVE TrimLeft(_)
TrimLeft(s) ==
    IF s # <<>> /\ Head(s) \in {" ", "-"} THEN TrimLeft(Tail(s)) ELSE s

RECURSIVE TrimRight(_)
TrimRight(s) ==
    IF s # <<>> /\ s[Len(s)] \in {" ", "-"}
    THEN TrimRight(SubSeq(s, 1, Len(s) - 1)) ELSE s

\* safeFilename.replace(/^[ -]+|[ -]+$/g, '')
TrimEnds(s) == TrimRight(TrimLeft(s))

Truncate(s) ==
    IF Len(s) > MaxFilenameLength THEN Substring(s, 0, MaxFilenameLength) ELSE s

sanitizeFilename(filename) ==
    LET t == Truncate(TrimEnds(CollapseHyphens(ReplaceForbidden(filename))))
    IN  IF t = <<>> THEN Untitled ELSE t

\* the stem and extension split shared by parseFilenameTemplate and
\* getUniqueFilename: lastIndexOf('.') > 0 ? lastIndexOf('.') : length
SplitPoint(s) == IF LastIndexOf(s, ".") > 0 THEN LastIndexOf(s, ".") ELSE Len(s)

\* `${w / gcd(w, h)}x${h / gcd(w, h)}`, or '' when a dimension is falsy
GcdRatio(w, h) ==
    IF w # 0 /\ h # 0
    THEN IntStr(w \div Gcd(w, h)) \o <<"x">> \o IntStr(h \div Gcd(w, h))
    ELSE <<>>

PresetStr(presetName) == IF presetName = NoPreset THEN <<>> ELSE presetName

\* the chain of replace() calls both templaters share; the arguments are the
\* replacement strings
Expand(template, name, fmt, index, w, h, ratio, preset, ts) ==
    LET s1 == ReplaceAll(template, "{name}", name)
        s2 == ReplaceAll(s1, "{ext}", FormatStr(fmt))
        s3 == ReplaceAll(s2, "{index}", IntStr(index))
        s4 == ReplaceAll(s3, "{width}", IntStr(w))
        s5 == ReplaceAll(s4, "{height}", IntStr(h))
        s6 == ReplaceAll(s5, "{ratio}", ratio)
        s7 == ReplaceAll(s6, "{preset}", PresetStr(preset))
    IN  ReplaceAll(s7, "{timestamp}", IntStr(ts))

\* metadata.index is the 0-based loop index
parseFilenameTemplate(template, originalName, w, h, fmt, preset, ts, index) ==
    LET nameWithoutExt == Substring(originalName, 0, SplitPoint(originalName))
    IN  sanitizeFilename(Expand(template, nameWithoutExt, fmt, index + 1,
                                w, h, GcdRatio(w, h), preset, ts))

getUniqueFilename(preferredName, existingNames) ==
    LET nameWithoutExt == Substring(preferredName, 0, SplitPoint(preferredName))
        ext == Substring(preferredName, SplitPoint(preferredName), Len(preferredName))
        RECURSIVE Loop(_, _)
        Loop(uniqueName, counter) ==
            IF uniqueName \in existingNames
            THEN Loop(nameWithoutExt \o <<"(">> \o IntStr(counter) \o <<")">> \o ext,
                      counter + 1)
            ELSE uniqueName
    IN  Loop(preferredName, 1)

\* ------------------------------------- image.worker.ts: generateFileName
\* (width / height).toFixed(2): the quotient rounded to hundredths
FixedRatio(w, h) ==
    LET hundredths == (200 * w + h) \div (2 * h)
    IN  NatStr(hundredths \div 100) \o <<".">>
        \o <<DigitChars[((hundredths \div 10) % 10) + 1]>>
        \o <<DigitChars[(hundredths % 10) + 1]>>

\* originalName.split('.').slice(0, -1).join('.')
SplitStem(originalName) ==
    IF LastIndexOf(originalName, ".") < 0 THEN <<>>
    ELSE Substring(originalName, 0, LastIndexOf(originalName, "."))

AppendExtension(fileName, fmt) ==
    IF EndsWith(fileName, <<".">> \o FormatStr(fmt)) THEN fileName
    ELSE fileName \o <<".">> \o FormatStr(fmt)

generateFileName(originalName, index, template, fmt, w, h, preset, now) ==
    LET tpl == IF template = NoTemplate THEN DefaultTemplate ELSE template
    IN  AppendExtension(
            Expand(tpl, SplitStem(originalName), fmt, index, w, h,
                   FixedRatio(w, h), preset, now),
            fmt)

\* ------------------------------------------------ worker message shapes
ProgressMsg(count, total, name) ==
    [type |-> "progress", processedCount |-> count, totalCount |-> total,
     imageName |-> name, results |-> <<>>, current |-> 0, total |-> 0]

DoneMsg(res) ==
    [type |-> "done", processedCount |-> 0, totalCount |-> 0,
     imageName |-> <<>>, results |-> res, current |-> 0, total |-> 0]

\* the progress callback handed to removeBackground
ModelLoadMsg(c, t) ==
    [type |-> "model-load-progress", processedCount |-> 0, totalCount |-> 0,
     imageName |-> <<>>, results |-> <<>>, current |-> c, total |-> t]

\* ----------------------------------------------------------------- state
VARIABLES
    handler,            \* which worker script handles the batch: "ext" | "heur"
    images,             \* event.data.images: sequence of [name, id]
    options,            \* event.data.options
    pc,                 \* "idle" | "segment" | "decode" | "encode" | "done"
    idx,                \* 1-based position of the image being processed
    results,            \* finalResults / results
    events,             \* everything posted with self.postMessage, in order
    processedCount,     \* ext handler's counter
    generatedFilenames, \* heur handler's registry
    timestamp,          \* heur handler's batch timestamp
    clock,              \* Date.now()
    cur,                \* canvas and format of the image being encoded
    ticks,              \* progress callbacks made by the pending removeBackground
    outcome,            \* history: how each image handled so far ended
    oplog,              \* history: completed pipeline steps, <<step, image>>
    fin,                \* argument of the function under study
    fout,               \* its result, NotApplied before the call
    ui,                 \* the component's React state (UploadDropzone)
    posted,             \* messages the component posted to its workers
    inv                 \* locals of concurrent invocations of the heur handler

\* what the worker's handler never touches
others == <<fin, fout, ui, posted, inv>>

vars == <<handler, images, options, pc, idx, results, events, processedCount,
          generatedFilenames, timestamp, clock, cur, ticks, outcome, oplog,
          fin, fout, ui, posted, inv>>

\* the pixels of a canvas by what becomes of them: foreground or background
\* for the segmentation, inside or outside the rounded rectangle
PixelClasses == [foreground : BOOLEAN, inside : BOOLEAN]

\* alpha is 1 for an opaque pixel and 0 for a transparent one
Transparent == [p \in PixelClasses |-> 0]

Opaque == [p \in PixelClasses |-> 1]

NoCanvas == [format |-> "png", w |-> 0, h |-> 0, alpha |-> Transparent]

\* an absent number (quality?: number) is <<>>, a present one is <<n>>
NoQuality == <<>>

\* ------------------------------------------ the per-image steps, as code
\* the requested format is used as it is
EffectiveFormatUncoerced(fmt, removeBackground) == fmt

\* ext 83-84, heur 472-478
EffectiveFormat(fmt, removeBackground) ==
    IF removeBackground /\ fmt = "jpeg" THEN "png" ELSE fmt

\* new OffscreenCanvas(w, h) takes unsigned arguments: a negative one throws
CanvasThrows(w, h) == w < 0 \/ h < 0

\* getImageData and convertToBlob fail on a canvas without pixels
NoPixels(w, h) == w = 0 \/ h = 0

\* ext 111: quality argument of convertToBlob, <<>> or <<q, 100>> for q/100
ExtQualityArg(fmt, quality) ==
    IF fmt = "png" THEN <<>>
    ELSE IF quality # NoQuality /\ quality[1] # 0 THEN <<quality[1], 100>>
    ELSE <<>>

\* heur 501
HeurQualityArg(fmt, quality) ==
    IF quality # NoQuality /\ quality[1] # 0 THEN <<quality[1], 100>> ELSE <<>>

\* heur 532: processedCount of the progress event for the image at 0-based i
HeurProgressCount(i, nResults) == i + 1

\* the total is sent in place of the counter
ExtProgressCountTotal(count) == Len(images)

\* ext 115/139
ExtProgressCount(count) == count

FirstStage ==
    IF handler = "ext" /\ options.removeBackground THEN "segment" ELSE "decode"

\* 'done' is posted inside the loop, after every image
ContinueDoneEachImage(k, newResults, newEvents) ==
    /\ events' = Append(newEvents, DoneMsg(newResults))
    /\ IF k >= Len(images)
       THEN pc' = "done" /\ idx' = k
       ELSE pc' = FirstStage /\ idx' = k + 1

\* the loop moves on to image k + 1, or the handler posts 'done'
Continue(k, newResults, newEvents) ==
    IF k >= Len(images)
    THEN /\ pc' = "done"
         /\ idx' = k
         /\ events' = Append(newEvents, DoneMsg(newResults))
    ELSE /\ pc' = FirstStage
         /\ idx' = k + 1
         /\ events' = newEvents

\* the error is not caught: the handler ends without posting 'done'
SkipUncaught(kind) ==
    /\ outcome' = Append(outcome, kind)
    /\ cur' = NoCanvas
    /\ ticks' = 0
    /\ pc' = "done"
    /\ UNCHANGED <<idx, events, results, processedCount, generatedFilenames>>

\* the error ends the loop: 'done' is posted with the results so far
SkipBreak(kind) ==
    /\ outcome' = Append(outcome, kind)
    /\ cur' = NoCanvas
    /\ ticks' = 0
    /\ pc' = "done"
    /\ events' = Append(events, DoneMsg(results))
    /\ UNCHANGED <<idx, results, processedCount, generatedFilenames>>

\* catch block (ext 143-145, heur 537-541) and the `continue` statements: the
\* image is dropped, the loop goes on
Skip(kind) ==
    /\ outcome' = Append(outcome, kind)
    /\ cur' = NoCanvas
    /\ ticks' = 0
    /\ Continue(idx, results, events)
    /\ UNCHANGED <<results, processedCount, generatedFilenames>>

\* ------------------------------------------------------------- actions
\* self.onmessage up to its first await
OnMessage ==
    /\ pc = "idle"
    /\ results' = <<>>
    /\ processedCount' = 0
    /\ generatedFilenames' = {}
    /\ timestamp' = IF handler = "heur" THEN clock ELSE timestamp
    /\ Continue(0, <<>>, events)
    /\ UNCHANGED <<handler, images, options, clock, cur, ticks, outcome, oplog>>
    /\ UNCHANGED others

\* ext 10-15: removeBackground reports download progress while it is pending
ModelLoadProgress ==
    /\ pc = "segment"
    /\ ticks < MaxModelTicks
    /\ ticks' = ticks + 1
    /\ events' = Append(events, ModelLoadMsg(ticks + 1, MaxModelTicks))
    /\ UNCHANGED <<handler, images, options, pc, idx, results, processedCount,
                   generatedFilenames, timestamp, clock, cur, outcome, oplog>>
    /\ UNCHANGED others

\* ext 66-73: removeBackground resolved, createImageBitmap is called
SegmentResolve ==
    /\ pc = "segment"
    /\ pc' = "decode"
    /\ ticks' = 0
    /\ oplog' = Append(oplog, <<"segment", idx>>)
    /\ UNCHANGED <<handler, images, options, idx, results, events, processedCount,
                   generatedFilenames, timestamp, clock, cur, outcome>>
    /\ UNCHANGED others

\* ext 66 rejected
SegmentReject ==
    /\ pc = "segment"
    /\ Skip("segmentFail")
    /\ UNCHANGED <<handler, images, options, timestamp, clock, oplog>>
    /\ UNCHANGED others

\* createImageBitmap rejected (ext 73, heur 411)
DecodeReject ==
    /\ pc = "decode"
    /\ Skip("decodeFail")
    /\ UNCHANGED <<handler, images, options, timestamp, clock, oplog>>
    /\ UNCHANGED others

\* the synchronous steps between the decode and the call of convertToBlob
ExtSteps(k) ==
    <<<<"decode", k>>>>
    \o (IF options.removeBackground /\ options.format = "jpeg"
        THEN <<<<"coerce", k>>>> ELSE <<>>)
    \o <<<<"fill", k>>>>
    \o (IF options.borderRadius > 0 THEN <<<<"clip", k>>>> ELSE <<>>)
    \o <<<<"draw", k>>>>

HeurStepsBeforeSegment(k) == <<<<"decode", k>>, <<"draw", k>>>>

HeurSteps(k) ==
    HeurStepsBeforeSegment(k)
    \o (IF options.removeBackground THEN <<<<"segment", k>>>> ELSE <<>>)
    \o (IF options.removeBackground /\ options.format = "jpeg"
        THEN <<<<"coerce", k>>>> ELSE <<>>)
    \o (IF options.borderRadius > 0 THEN <<<<"mask", k>>>> ELSE <<>>)

\* the alpha left by globalCompositeOperation 'source-over'
SourceOver(src, dst) == src + dst * (1 - src)

\* the rounded rectangle is composited like the image
MaskCompositeSourceOver(src, dst) == src + dst * (1 - src)

\* heur 482: the alpha left by globalCompositeOperation 'destination-in'
MaskComposite(src, dst) == src * dst

\* the alpha after segmentation (ext 66, heur 386-387): background pixels
\* are transparent
Segmented(alpha) ==
    [p \in PixelClasses |-> IF p.foreground THEN alpha[p] ELSE 0]

\* the coverage of the rounded rectangle path
RoundedRect == [p \in PixelClasses |-> IF p.inside THEN 1 ELSE 0]

\* what one step does to the file, the bitmap decoded from it, the clip
\* region and the canvas
Painted(impl, step, format, s) ==
    IF step = "segment"
    THEN IF impl = "ext" THEN [s EXCEPT !.file = Segmented(s.file)]
         ELSE [s EXCEPT !.canvas = Segmented(s.canvas)]
    ELSE IF step = "decode" THEN [s EXCEPT !.bitmap = s.file]
    ELSE IF step = "fill"
    THEN [s EXCEPT !.canvas = IF format = "jpeg" THEN Opaque ELSE Transparent]
    ELSE IF step = "clip" THEN [s EXCEPT !.clip = RoundedRect]
    ELSE IF step = "draw"
    THEN [s EXCEPT !.canvas =
            [p \in PixelClasses |->
                IF s.clip[p] = 1 THEN SourceOver(s.bitmap[p], s.canvas[p])
                ELSE s.canvas[p]]]
    ELSE IF step = "mask"
    THEN [s EXCEPT !.canvas =
            [p \in PixelClasses |-> MaskComposite(RoundedRect[p], s.canvas[p])]]
    ELSE s

\* the alpha of the canvas after the steps logged for image k, for an opaque
\* file and a new canvas (ext 78, heur 416)
CanvasAlpha(impl, log, k, format) ==
    LET RECURSIVE Run(_, _)
        Run(i, s) ==
            IF i > Len(log) THEN s
            ELSE IF log[i][2] = k THEN Run(i + 1, Painted(impl, log[i][1], format, s))
            ELSE Run(i + 1, s)
    IN  Run(1, [file |-> Opaque, bitmap |-> Transparent, clip |-> Opaque,
                canvas |-> Transparent]).canvas

\* createImageBitmap resolved: ext 73-109, heur 411-499
DecodeResolve ==
    /\ pc = "decode"
    /\ LET w == options.resize.width
           h == options.resize.height
       IN  IF CanvasThrows(w, h)
           THEN /\ Skip("canvasFail")
                /\ oplog' = Append(oplog, <<"decode", idx>>)
           ELSE \E ctxOk \in BOOLEAN :
                IF ~ctxOk
                THEN /\ Skip("noContext")
                     /\ oplog' = Append(oplog, <<"decode", idx>>)
                ELSE IF handler = "heur" /\ options.removeBackground /\ NoPixels(w, h)
                THEN /\ Skip("segmentFail")
                     /\ oplog' = oplog \o HeurStepsBeforeSegment(idx)
                ELSE /\ pc' = "encode"
                     /\ oplog' = oplog \o (IF handler = "ext" THEN ExtSteps(idx)
                                           ELSE HeurSteps(idx))
                     /\ cur' = [format |-> EffectiveFormat(options.format,
                                                          options.removeBackground),
                                w |-> w, h |-> h,
                                alpha |-> CanvasAlpha(handler, oplog', idx,
                                              EffectiveFormat(options.format,
                                                              options.removeBackground))]
                     /\ UNCHANGED <<idx, results, events, processedCount,
                                    generatedFilenames, ticks, outcome>>
    /\ UNCHANGED <<handler, images, options, timestamp, clock>>
    /\ UNCHANGED others

\* convertToBlob rejected (ext 109, heur 499)
EncodeReject ==
    /\ pc = "encode"
    /\ Skip("encodeFail")
    /\ UNCHANGED <<handler, images, options, timestamp, clock, oplog>>
    /\ UNCHANGED others

Result(blob, filename, w, h, id, nameFormat) ==
    [blob |-> blob, filename |-> filename, width |-> w, height |-> h,
     originalId |-> id, nameFormat |-> nameFormat]

\* ext 114-142
ExtAppend ==
    LET image == images[idx]
        count == processedCount + 1
        blob == [type |-> cur.format,
                 quality |-> ExtQualityArg(cur.format, options.quality),
                 alpha |-> cur.alpha]
        filename == generateFileName(image.name, count, options.filenameTemplate,
                                     cur.format, cur.w, cur.h,
                                     options.presetName, clock)
        newResults == Append(results,
                             Result(blob, filename, cur.w, cur.h, image.id, cur.format))
    IN  /\ processedCount' = count
        /\ results' = newResults
        /\ Continue(idx, newResults,
                    Append(events, ProgressMsg(ExtProgressCount(count),
                                               Len(images), image.name)))
        /\ UNCHANGED generatedFilenames

\* heur 504-536
HeurAppend ==
    LET image == images[idx]
        blob == [type |-> cur.format,
                 quality |-> HeurQualityArg(cur.format, options.quality),
                 alpha |-> cur.alpha]
        baseFilename == parseFilenameTemplate(options.filenameTemplate, image.name,
                                              cur.w, cur.h, cur.format,
                                              options.presetName, timestamp, idx - 1)
        finalFilename == getUniqueFilename(baseFilename, generatedFilenames)
        newResults == Append(results,
                             Result(blob, finalFilename, cur.w, cur.h, image.id,
                                    cur.format))
    IN  /\ generatedFilenames' = generatedFilenames \cup {finalFilename}
        /\ results' = newResults
        /\ Continue(idx, newResults,
                    Append(events, ProgressMsg(HeurProgressCount(idx - 1, Len(newResults)),
                                               Len(images), image.name)))
        /\ UNCHANGED processedCount

\* convertToBlob resolved: ext 109-142, heur 499-536
EncodeResolve ==
    /\ pc = "encode"
    /\ ~NoPixels(cur.w, cur.h)
    /\ \E blobOk \in BOOLEAN :
         IF ~blobOk
         THEN /\ Skip("noBlob")
              /\ oplog' = Append(oplog, <<"encode", idx>>)
         ELSE IF handler = "heur" /\ options.filenameTemplate = NoTemplate
         THEN /\ Skip("nameFail")
              /\ oplog' = Append(oplog, <<"encode", idx>>)
         ELSE /\ IF handler = "ext" THEN ExtAppend ELSE HeurAppend
              /\ outcome' = Append(outcome, "ok")
              /\ oplog' = oplog \o <<<<"encode", idx>>, <<"name", idx>>>>
              /\ cur' = NoCanvas
              /\ ticks' = 0
    /\ UNCHANGED <<handler, images, options, timestamp, clock>>
    /\ UNCHANGED others

\* time passes while the handler is suspended
Tick ==
    /\ pc \in {"idle", "segment", "decode", "encode"}
    /\ clock < MaxClock
    /\ clock' = clock + 1
    /\ UNCHANGED <<handler, images, options, pc, idx, results, events,
                   processedCount, generatedFilenames, timestamp, cur, ticks,
                   outcome, oplog>>
    /\ UNCHANGED others

Next ==
    \/ OnMessage
    \/ ModelLoadProgress
    \/ SegmentResolve
    \/ SegmentReject
    \/ DecodeResolve
    \/ DecodeReject
    \/ EncodeResolve
    \/ EncodeReject
    \/ Tick

\* --------------------------------------------------------- initial states
RECURSIVE SeqsUpTo(_, _)
SeqsUpTo(S, n) ==
    IF n = 0 THEN {<<>>}
    ELSE LET shorter == SeqsUpTo(S, n - 1)
         IN  shorter \cup {Append(s, x) : s \in {t \in shorter : Len(t) = n - 1}, x \in S}

\* images carry distinct ids (UploadDropzone onDrop gives each a fresh id)
ImagesOf(names) == [k \in 1..Len(names) |-> [name |-> names[k], id |-> k]]

InitLocals ==
    /\ pc = "idle"
    /\ idx = 0
    /\ results = <<>>
    /\ events = <<>>
    /\ processedCount = 0
    /\ generatedFilenames = {}
    /\ timestamp = 0
    /\ clock = 0
    /\ cur = NoCanvas
    /\ ticks = 0
    /\ outcome = <<>>
    /\ oplog = <<>>

\* nothing but the worker runs
NoOthers ==
    /\ fin = <<>>
    /\ fout = <<>>
    /\ ui = <<>>
    /\ posted = <<>>
    /\ inv = <<>>

BatchNames == {<<"a", ".", "j">>, <<"b", "?", ".", "j">>}

BatchTemplates == {DefaultTemplate, <<"{name}", ".", "{ext}">>}

BatchResizes ==
    {[width |-> 4, height |-> 2, fit |-> "cover"],
     [width |-> 0, height |-> 2, fit |-> "cover"],
     [width |-> 2, height |-> 0 - 1, fit |-> "contain"]}

Init ==
    /\ handler \in {"ext", "heur"}
    /\ images \in {ImagesOf(n) : n \in SeqsUpTo(BatchNames, MaxImages)}
    /\ options \in [resize : BatchResizes,
                    borderRadius : {0},
                    format : Formats,
                    quality : {<<90>>},
                    removeBackground : BOOLEAN,
                    filenameTemplate : BatchTemplates,
                    presetName : {NoPreset}]
    /\ InitLocals
    /\ NoOthers

Spec == Init /\ [][Next]_vars

\* every awaited capability eventually resolves or rejects, and a posted
\* message is eventually delivered
Fairness ==
    /\ WF_vars(OnMessage)
    /\ WF_vars(SegmentResolve \/ SegmentReject)
    /\ WF_vars(DecodeResolve \/ DecodeReject)
    /\ WF_vars(EncodeResolve \/ EncodeReject)

LiveSpec == Spec /\ Fairness

\* ------------------------------------------------------------ properties
IsProgress(e) == e.type = "progress"

ProgressEvents == SelectSeq(events, IsProgress)

OkImages == {k \in 1..Len(outcome) : outcome[k] = "ok"}

LastEvent == events[Len(events)]

InvalidDimensions == options.resize.width <= 0 \/ options.resize.height <= 0

CoercionCase == options.removeBackground /\ options.format = "jpeg"

\* C1: the events of a batch are progress (and model-load-progress) events
\* followed by exactly one 'done' event, which is the last event posted: the
\* handler has finished exactly when 'done' is the last event, and no event
\* of any type follows it.
C1_DoneIsTerminal ==
    /\ \A k \in 1..Len(events) :
         /\ events[k].type \in {"progress", "model-load-progress", "done"}
         /\ events[k].type = "done" => k = Len(events)
    /\ pc = "done" <=> (events # <<>> /\ LastEvent.type = "done")

C1_Witness ==
    /\ pc = "done"
    /\ \E j, k \in 1..Len(events) :
         events[j].type = "model-load-progress" /\ events[k].type = "progress"

\* C2: under fairness of the awaited capabilities every batch, whatever
\* failures its images meet, eventually has 'done' posted, carrying one
\* result per image that completed the pipeline (none when all failed).
C2_DonePosted ==
    /\ pc = "done"
    /\ events # <<>>
    /\ LastEvent.type = "done"
    /\ LastEvent.results = results
    /\ Len(outcome) = Len(images)
    /\ Len(LastEvent.results) = Cardinality(OkImages)

C2_DoneEventually == <>C2_DonePosted

C2_Witness ==
    /\ C2_DonePosted
    /\ Len(images) >= 2
    /\ LastEvent.results = <<>>
    /\ \E k \in 1..Len(outcome) : outcome[k] = "decodeFail"
    /\ \E k \in 1..Len(outcome) : outcome[k] = "encodeFail"

\* C3: an image that fails is the only one left out: the results are the
\* images that completed the pipeline, in order, there are as many progress
\* events as results, and when the handler is done every image of the batch
\* has been handled.
C3_OnlyFailedOmitted ==
    /\ Len(results) = Cardinality(OkImages)
    /\ Len(ProgressEvents) = Cardinality(OkImages)
    /\ {results[k].originalId : k \in 1..Len(results)}
         = {images[k].id : k \in OkImages}
    /\ pc = "done" => Len(outcome) = Len(images)

C3_Witness ==
    /\ pc = "done"
    /\ Len(images) >= 2
    /\ outcome[1] \in {"decodeFail", "segmentFail", "encodeFail"}
    /\ outcome[Len(images)] = "ok"
    /\ Len(results) = Len(images) - 1

\* C4: the k-th progress event of a batch carries processedCount = k, at most
\* totalCount, and the original file name of the k-th result.
C4_RunningCount ==
    \A k \in 1..Len(ProgressEvents) :
        /\ ProgressEvents[k].processedCount = k
        /\ ProgressEvents[k].processedCount <= ProgressEvents[k].totalCount
        /\ k <= Len(results)
        /\ \E m \in 1..Len(images) :
             /\ images[m].id = results[k].originalId
             /\ ProgressEvents[k].imageName = images[m].name

\* C5: images are handled one at a time in input order: the pipeline steps
\* never go back to an earlier image, the results and the progress labels
\* follow the input order, and processedCount strictly increases.
C5_InputOrder ==
    /\ \A j, k \in 1..Len(oplog) : j < k => oplog[j][2] <= oplog[k][2]
    /\ \A j, k \in 1..Len(results) :
         j < k => results[j].originalId < results[k].originalId
    /\ Len(ProgressEvents) = Len(results)
    /\ \A k \in 1..Len(ProgressEvents) :
         ProgressEvents[k].imageName = images[results[k].originalId].name
    /\ \A j, k \in 1..Len(ProgressEvents) :
         j < k => ProgressEvents[j].processedCount < ProgressEvents[k].processedCount

C5_Witness ==
    /\ pc = "done"
    /\ Len(ProgressEvents) >= 2
    /\ images[1].name # images[2].name

OpsOf(kinds) == {k \in 1..Len(oplog) : oplog[k][1] \in kinds}

PngSuffix == <<".">> \o FormatStr("png")

EncodedAndNamedPng ==
    \A k \in 1..Len(results) :
        /\ results[k].blob.type = "png"
        /\ ("{ext}" \in {options.filenameTemplate[m] :
                          m \in 1..Len(options.filenameTemplate)} \/ handler = "ext")
             => EndsWith(results[k].filename, PngSuffix)

C7_InvalidDimensionsUntouched ==
    InvalidDimensions =>
        /\ OpsOf({"decode"}) = {}
        /\ ProgressEvents = <<>>
        /\ results = <<>>

\* C8: the filenames of the results of one batch are pairwise distinct.
C8_DistinctFilenames ==
    \A j, k \in 1..Len(results) :
        j # k => results[j].filename # results[k].filename

\* C9: every filename in the results ends with "." and the effective format
\* the image was encoded in.
C9_EndsWithExtension ==
    \A k \in 1..Len(results) :
        EndsWith(results[k].filename, <<".">> \o FormatStr(results[k].blob.type))

\* C10: no filename in the results contains one of / \ ? % * : | " < >.
C10_NoForbiddenChars ==
    \A k \in 1..Len(results) :
        \A m \in 1..Len(results[k].filename) :
            results[k].filename[m] \notin ForbiddenChars

\* ============================================== sanitizeFilename, applied
MaxTail == 3

\* fout is <<>> before the call and <<result>> after it
NotApplied == <<>>

Applied == fout # NotApplied

Out == fout[1]

\* the worker and the component stand still while a function is studied
Standstill ==
    /\ handler = "heur"
    /\ images = <<>>
    /\ options = <<>>
    /\ InitLocals
    /\ ui = <<>>
    /\ posted = <<>>
    /\ inv = <<>>

notfun == <<handler, images, options, pc, idx, results, events, processedCount,
            generatedFilenames, timestamp, clock, cur, ticks, outcome, oplog,
            ui, posted, inv>>

SanitizeChars == {"a", "-", " ", "/"}

Pad(n) == [k \in 1..n |-> "a"]

\* names around the truncation limit: up to the limit is pad, the rest varies
SanitizeInputs ==
    {Pad(n) \o tail : n \in {0, MaxFilenameLength - 2, MaxFilenameLength - 1},
                      tail \in SeqsUpTo(SanitizeChars, MaxTail)}

SanitizeInit ==
    /\ fin \in SanitizeInputs
    /\ fout = NotApplied
    /\ Standstill

SanitizeApply ==
    /\ fout = NotApplied
    /\ fout' = <<sanitizeFilename(fin)>>
    /\ UNCHANGED <<fin, notfun>>

SanitizeSpec == SanitizeInit /\ [][SanitizeApply]_vars

\* C11: sanitizeFilename is idempotent: sanitizing an already sanitized name
\* gives that name back, for every input
C11_SanitizeIdempotent ==
    Applied => sanitizeFilename(Out) = Out

\* ===================================== batches that exercise the templater
DetailNames == {<<"a", ".", "j">>}

TimestampTemplate == <<"{index}", "_", "{timestamp}">>

DetailTemplates == {DefaultTemplate, TimestampTemplate}

\* the quality slider goes from 0 to 100 (part_000:601-602)
DetailQualities == {<<0>>, <<90>>}

DetailInit ==
    /\ handler \in {"ext", "heur"}
    /\ images \in {ImagesOf(n) : n \in SeqsUpTo(DetailNames, MaxImages)}
    /\ options \in [resize : {[width |-> 4, height |-> 2, fit |-> "cover"]},
                    borderRadius : {0},
                    format : Formats,
                    quality : DetailQualities,
                    removeBackground : BOOLEAN,
                    filenameTemplate : DetailTemplates,
                    presetName : {NoPreset}]
    /\ InitLocals
    /\ NoOthers

DetailSpec == DetailInit /\ [][Next]_vars

\* the name the handler gives result r when {index} expands to the position
\* of r's image in the submitted batch
NameAtInputPosition(r) ==
    LET pos == r.originalId
    IN  IF handler = "ext"
        THEN generateFileName(images[pos].name, pos, options.filenameTemplate,
                              r.nameFormat, r.width, r.height,
                              options.presetName, 0)
        ELSE parseFilenameTemplate(options.filenameTemplate, images[pos].name,
                                   r.width, r.height, r.nameFormat,
                                   options.presetName, 0, pos - 1)

\* C12: {index} expands to the 1-based position of the image in the submitted
\* batch, whatever happened to the images before it
C12_IndexIsInputPosition ==
    options.filenameTemplate = DefaultTemplate =>
        \A k \in 1..Len(results) : results[k].filename = NameAtInputPosition(results[k])

\* "<index>_<t>", with or without the extension of the result's format
CarriesTimestamp(r, t) ==
    \E i \in 1..Len(images) :
        LET stem == IntStr(i) \o <<"_">> \o IntStr(t)
        IN  r.filename \in {stem, stem \o <<".">> \o FormatStr(r.nameFormat)}

\* C13: {timestamp} is captured once per batch: all filenames of one batch
\* carry the same timestamp value although the clock advances between images
C13_OneTimestampPerBatch ==
    options.filenameTemplate = TimestampTemplate =>
        \E t \in 0..MaxClock :
            \A k \in 1..Len(results) : CarriesTimestamp(results[k], t)

\* C19: JPEG and WebP results are encoded with quality = requested / 100, for
\* every requested quality from 0 to 100; PNG results are encoded with no
\* quality argument
C19_RequestedQualityEncoded ==
    \A k \in 1..Len(results) :
        LET blob == results[k].blob
        IN  IF blob.type = "png" THEN blob.quality = <<>>
            ELSE options.quality # NoQuality =>
                     blob.quality = <<options.quality[1], 100>>

\* ================================================== resize and fit geometry
MaxDim == 3

\* JavaScript numbers, kept as exact fractions in lowest terms (the rounding
\* of double arithmetic is not part of the model)
Q(n, d) ==
    LET g == Gcd(IF n < 0 THEN 0 - n ELSE n, d)
    IN  [n |-> n \div g, d |-> d \div g]

QInt(n) == Q(n, 1)
QLt(a, b) == a.n * b.d < b.n * a.d
QLe(a, b) == a.n * b.d <= b.n * a.d
QAdd(a, b) == Q(a.n * b.d + b.n * a.d, a.d * b.d)
QSub(a, b) == Q(a.n * b.d - b.n * a.d, a.d * b.d)
QMul(a, b) == Q(a.n * b.n, a.d * b.d)
\* a / b for b > 0
QDiv(a, b) == Q(a.n * b.d, a.d * b.n)
QHalf(a) == Q(a.n, 2 * a.d)

\* the arguments of drawImage(image, sx, sy, sWidth, sHeight, dx, dy, dWidth,
\* dHeight)
DrawArgs(sx, sy, sWidth, sHeight, dx, dy, dWidth, dHeight) ==
    [sx |-> sx, sy |-> sy, sWidth |-> sWidth, sHeight |-> sHeight,
     dx |-> dx, dy |-> dy, dWidth |-> dWidth, dHeight |-> dHeight]

\* the comparison is turned around
WiderThanCanvasInverted(imgAspect, canvasAspect) == QLt(imgAspect, canvasAspect)

\* imgAspect > canvasAspect (ext 208, 217; heur 437, 457)
WiderThanCanvas(imgAspect, canvasAspect) == QLt(canvasAspect, imgAspect)

\* imgAspectRatio < canvasAspectRatio (heur 447)
TallerThanCanvas(imgAspect, canvasAspect) == QLt(imgAspect, canvasAspect)

\* width is trimmed to the canvas aspect, centred horizontally
TrimWidth(imgWidth, imgHeight, canvasWidth, canvasHeight) ==
    LET canvasAspect == QDiv(QInt(canvasWidth), QInt(canvasHeight))
        sWidth == QMul(QInt(imgHeight), canvasAspect)
    IN  DrawArgs(QHalf(QSub(QInt(imgWidth), sWidth)), QInt(0), sWidth, QInt(imgHeight),
                 QInt(0), QInt(0), QInt(canvasWidth), QInt(canvasHeight))

\* height is trimmed to the canvas aspect, centred vertically
TrimHeight(imgWidth, imgHeight, canvasWidth, canvasHeight) ==
    LET canvasAspect == QDiv(QInt(canvasWidth), QInt(canvasHeight))
        sHeight == QDiv(QInt(imgWidth), canvasAspect)
    IN  DrawArgs(QInt(0), QHalf(QSub(QInt(imgHeight), sHeight)), QInt(imgWidth), sHeight,
                 QInt(0), QInt(0), QInt(canvasWidth), QInt(canvasHeight))

\* the whole image, scaled to the canvas width and centred vertically
FitWidth(imgWidth, imgHeight, canvasWidth, canvasHeight) ==
    LET imgAspect == QDiv(QInt(imgWidth), QInt(imgHeight))
        dHeight == QDiv(QInt(canvasWidth), imgAspect)
    IN  DrawArgs(QInt(0), QInt(0), QInt(imgWidth), QInt(imgHeight),
                 QInt(0), QHalf(QSub(QInt(canvasHeight), dHeight)),
                 QInt(canvasWidth), dHeight)

\* the whole image, scaled to the canvas height and centred horizontally
FitHeight(imgWidth, imgHeight, canvasWidth, canvasHeight) ==
    LET imgAspect == QDiv(QInt(imgWidth), QInt(imgHeight))
        dWidth == QMul(QInt(canvasHeight), imgAspect)
    IN  DrawArgs(QInt(0), QInt(0), QInt(imgWidth), QInt(imgHeight),
                 QHalf(QSub(QInt(canvasWidth), dWidth)), QInt(0),
                 dWidth, QInt(canvasHeight))

\* ext 198-228
calculateDrawDimensions(imgWidth, imgHeight, canvasWidth, canvasHeight, fit) ==
    LET imgAspect == QDiv(QInt(imgWidth), QInt(imgHeight))
        canvasAspect == QDiv(QInt(canvasWidth), QInt(canvasHeight))
    IN  IF fit \in {"cover", "crop"}
        THEN IF WiderThanCanvas(imgAspect, canvasAspect)
             THEN TrimWidth(imgWidth, imgHeight, canvasWidth, canvasHeight)
             ELSE TrimHeight(imgWidth, imgHeight, canvasWidth, canvasHeight)
        ELSE IF WiderThanCanvas(imgAspect, canvasAspect)
             THEN FitWidth(imgWidth, imgHeight, canvasWidth, canvasHeight)
             ELSE FitHeight(imgWidth, imgHeight, canvasWidth, canvasHeight)

\* heur 421-469: what the handler hands to drawImage; the five-argument call
\* of 'contain' draws the whole bitmap
HeurResizeAndFit(imgWidth, imgHeight, canvasWidth, canvasHeight, fit) ==
    LET imgAspectRatio == QDiv(QInt(imgWidth), QInt(imgHeight))
        canvasAspectRatio == QDiv(QInt(canvasWidth), QInt(canvasHeight))
    IN  CASE fit = "contain" ->
               IF WiderThanCanvas(imgAspectRatio, canvasAspectRatio)
               THEN FitWidth(imgWidth, imgHeight, canvasWidth, canvasHeight)
               ELSE FitHeight(imgWidth, imgHeight, canvasWidth, canvasHeight)
          [] fit = "cover" ->
               IF TallerThanCanvas(imgAspectRatio, canvasAspectRatio)
               THEN TrimWidth(imgWidth, imgHeight, canvasWidth, canvasHeight)
               ELSE TrimHeight(imgWidth, imgHeight, canvasWidth, canvasHeight)
          [] fit = "crop" ->
               IF WiderThanCanvas(imgAspectRatio, canvasAspectRatio)
               THEN TrimWidth(imgWidth, imgHeight, canvasWidth, canvasHeight)
               ELSE TrimHeight(imgWidth, imgHeight, canvasWidth, canvasHeight)

FitOptions == {"cover", "crop", "contain"}

GeometryInit ==
    /\ fin \in [impl : {"ext", "heur"}, fit : FitOptions,
                imgWidth : 1..MaxDim, imgHeight : 1..MaxDim,
                canvasWidth : 1..MaxDim, canvasHeight : 1..MaxDim]
    /\ fout = NotApplied
    /\ Standstill

GeometryApply ==
    /\ fout = NotApplied
    /\ fout' = IF fin.impl = "ext"
               THEN <<calculateDrawDimensions(fin.imgWidth, fin.imgHeight,
                                              fin.canvasWidth, fin.canvasHeight,
                                              fin.fit)>>
               ELSE <<HeurResizeAndFit(fin.imgWidth, fin.imgHeight,
                                       fin.canvasWidth, fin.canvasHeight, fin.fit)>>
    /\ UNCHANGED <<fin, notfun>>

GeometrySpec == GeometryInit /\ [][GeometryApply]_vars

\* C14: with fit = contain the destination rectangle is no wider and no
\* taller than the target, matches the target on at least one axis, is
\* centred (equal padding on both sides), and the source rectangle is the
\* entire source
C14_ContainFitsInside ==
    (Applied /\ fin.fit = "contain") =>
        LET cw == QInt(fin.canvasWidth)
            ch == QInt(fin.canvasHeight)
        IN  /\ QLe(Out.dWidth, cw) /\ QLe(Out.dHeight, ch)
            /\ QLt(QInt(0), Out.dWidth) /\ QLt(QInt(0), Out.dHeight)
            /\ Out.dWidth = cw \/ Out.dHeight = ch
            /\ Out.dx = QSub(cw, QAdd(Out.dx, Out.dWidth))
            /\ Out.dy = QSub(ch, QAdd(Out.dy, Out.dHeight))
            /\ Out.sx = QInt(0) /\ Out.sy = QInt(0)
            /\ Out.sWidth = QInt(fin.imgWidth)
            /\ Out.sHeight = QInt(fin.imgHeight)

\* both handlers letterbox a source of another aspect than the target, on
\* either axis
C14_Witness ==
    /\ Applied
    /\ fin.fit = "contain"
    /\ fin.impl = "heur"
    /\ fin.imgWidth = 3 /\ fin.imgHeight = 1
    /\ fin.canvasWidth = 2 /\ fin.canvasHeight = 2
    /\ Out.dHeight = Q(2, 3)
    /\ Out.dy = Q(2, 3)

\* C15: with fit = cover or crop the destination rectangle is the full target
\* canvas and the source rectangle lies inside the source: origin not
\* negative, not past the source's width or height, area at most the source's
C15_SourceRectInsideSource ==
    (Applied /\ fin.fit \in {"cover", "crop"}) =>
        /\ Out.dx = QInt(0) /\ Out.dy = QInt(0)
        /\ Out.dWidth = QInt(fin.canvasWidth)
        /\ Out.dHeight = QInt(fin.canvasHeight)
        /\ QLe(QInt(0), Out.sx) /\ QLe(QInt(0), Out.sy)
        /\ QLe(QAdd(Out.sx, Out.sWidth), QInt(fin.imgWidth))
        /\ QLe(QAdd(Out.sy, Out.sHeight), QInt(fin.imgHeight))
        /\ QLe(QMul(Out.sWidth, Out.sHeight), QInt(fin.imgWidth * fin.imgHeight))

\* ========================================================= rounded corners
MaxRadius == 3

QMin(a, b) == IF QLe(a, b) THEN a ELSE b

\* one call on the 2D context: a method name and its arguments
PathOp(op, args) == [op |-> op, args |-> args]

\* ext 183-196
drawRoundedRectPath(width, height, r) ==
    LET radius == QMin(r, QMin(QHalf(QInt(width)), QHalf(QInt(height))))
        w == QInt(width)
        h == QInt(height)
        z == QInt(0)
    IN  <<PathOp("beginPath", <<>>),
          PathOp("moveTo", <<radius, z>>),
          PathOp("lineTo", <<QSub(w, radius), z>>),
          PathOp("quadraticCurveTo", <<w, z, w, radius>>),
          PathOp("lineTo", <<w, QSub(h, radius)>>),
          PathOp("quadraticCurveTo", <<w, h, QSub(w, radius), h>>),
          PathOp("lineTo", <<radius, h>>),
          PathOp("quadraticCurveTo", <<z, h, z, QSub(h, radius)>>),
          PathOp("lineTo", <<z, radius>>),
          PathOp("quadraticCurveTo", <<z, z, radius, z>>),
          PathOp("closePath", <<>>)>>

\* heur 483-492: the path filled with destination-in
HeurRoundedCorners(width, height, borderRadius) ==
    LET w == QInt(width)
        h == QInt(height)
        z == QInt(0)
    IN  <<PathOp("beginPath", <<>>),
          PathOp("moveTo", <<z, borderRadius>>),
          PathOp("arcTo", <<z, z, borderRadius, z, borderRadius>>),
          PathOp("lineTo", <<QSub(w, borderRadius), z>>),
          PathOp("arcTo", <<w, z, w, borderRadius, borderRadius>>),
          PathOp("lineTo", <<w, QSub(h, borderRadius)>>),
          PathOp("arcTo", <<w, h, QSub(w, borderRadius), h, borderRadius>>),
          PathOp("lineTo", <<borderRadius, h>>),
          PathOp("arcTo", <<z, h, z, QSub(h, borderRadius), borderRadius>>),
          PathOp("closePath", <<>>)>>

\* ext 95-98, heur 480-496: no path is built for a radius of 0
CornerPath(impl, width, height, r) ==
    IF ~QLt(QInt(0), r) THEN <<>>
    ELSE IF impl = "ext" THEN drawRoundedRectPath(width, height, r)
    ELSE HeurRoundedCorners(width, height, r)

CornerInit ==
    /\ fin \in [impl : {"ext", "heur"}, width : 1..MaxDim, height : 1..MaxDim,
                borderRadius : 0..MaxRadius]
    /\ fout = NotApplied
    /\ Standstill

CornerApply ==
    /\ fout = NotApplied
    /\ fout' = <<CornerPath(fin.impl, fin.width, fin.height, QInt(fin.borderRadius))>>
    /\ UNCHANGED <<fin, notfun>>

CornerSpec == CornerInit /\ [][CornerApply]_vars

\* min(w, h) / 2
HalfShortSide(width, height) ==
    QMin(QHalf(QInt(width)), QHalf(QInt(height)))

\* C16: for a radius r >= min(w, h) / 2 the rounded-rectangle path is the one
\* built for min(w, h) / 2: the radius used is min(r, w / 2, h / 2)
C16_RadiusClamped ==
    (Applied /\ QLe(HalfShortSide(fin.width, fin.height), QInt(fin.borderRadius))) =>
        Out = CornerPath(fin.impl, fin.width, fin.height,
                         HalfShortSide(fin.width, fin.height))

\* ============================================ flood-fill background removal
MaxArea == 9

Tolerance == 20

Rgb(r, g, b) == [r |-> r, g |-> g, b |-> b]

RgbOf(p) == Rgb(p.r, p.g, p.b)

\* four bytes of ImageData.data
PixelValues ==
    {[r |-> 0, g |-> 0, b |-> 0, a |-> 255],
     [r |-> 255, g |-> 255, b |-> 255, a |-> 101]}

\* ImageData: pixel (x, y) is data[y * width + x]
ImageDatas ==
    UNION {{[width |-> s[1], height |-> s[2], data |-> d] :
               d \in [0..(s[1] * s[2] - 1) -> PixelValues]} :
           s \in {t \in (1..MaxArea) \X (1..MaxArea) : t[1] * t[2] <= MaxArea}}

\* colorDistance(...) < tolerance: the square root is below the tolerance
\* exactly when the sum of squares is below its square
CloserThan(p, c, tolerance) ==
    (p.r - c.r) * (p.r - c.r) + (p.g - c.g) * (p.g - c.g)
        + (p.b - c.b) * (p.b - c.b) < tolerance * tolerance

\* getEdgeColor 291-296: top, bottom, left and right edge, as pixel indices
SamplePoints(width, height) ==
    [i \in 1..width |-> i - 1]
    \o [i \in 1..width |-> (height - 1) * width + (i - 1)]
    \o [i \in 1..height |-> (i - 1) * width]
    \o [i \in 1..height |-> (i - 1) * width + (width - 1)]

\* dominantColor is never updated
getEdgeColorDefault(imageData) == Rgb(255, 255, 255)

\* getEdgeColor 288-313: the first colour to reach each new highest count
getEdgeColor(imageData) ==
    LET samples == SamplePoints(imageData.width, imageData.height)
        colour(k) == RgbOf(imageData.data[samples[k]])
        \* colorCounts[key] after sample k was counted
        count(k) == Cardinality({j \in 1..k : colour(j) = colour(k)})
        RECURSIVE Scan(_, _, _)
        Scan(k, maxCount, dominantColor) ==
            IF k > Len(samples) THEN dominantColor
            ELSE IF count(k) > maxCount THEN Scan(k + 1, count(k), colour(k))
            ELSE Scan(k + 1, maxCount, dominantColor)
    IN  Scan(1, 0, Rgb(255, 255, 255))

\* N, S, E, W neighbours inside the image
Neighbours(i, width, height) ==
    LET x == i % width
        y == i \div width
    IN  {ny * width + nx :
            <<nx, ny>> \in {n \in {<<x, y - 1>>, <<x, y + 1>>, <<x - 1, y>>, <<x + 1, y>>} :
                               /\ n[1] >= 0 /\ n[1] < width
                               /\ n[2] >= 0 /\ n[2] < height}}

\* 330-337: every pixel of the border is queued
EdgePixels(width, height) ==
    {i \in 0..(width * height - 1) :
        \/ i \div width \in {0, height - 1}
        \/ i % width \in {0, width - 1}}

\* 339-363: pixels marked 1 when the queue is drained. The queue only decides
\* the order: a pixel is marked as soon as a marked neighbour is dequeued and
\* its colour is within tolerance, whatever the order
FloodFill(imageData, bg) ==
    LET RECURSIVE Grow(_)
        Grow(marked) ==
            LET more == {i \in 0..(imageData.width * imageData.height - 1) :
                            /\ i \notin marked
                            /\ Neighbours(i, imageData.width, imageData.height)
                                   \cap marked # {}
                            /\ CloserThan(imageData.data[i], bg, Tolerance)}
            IN  IF more = {} THEN marked ELSE Grow(marked \cup more)
    IN  Grow(EdgePixels(imageData.width, imageData.height))

\* any mark counts as background
IsMarked(maskValue) == maskValue # 0

\* 373: backgroundMask[...] === 1
IsBackground(maskValue) == maskValue = 1

\* 365-380: the feather loop, which rewrites the mask it reads, pixel after
\* pixel
Feather(mask, width, height) ==
    LET RECURSIVE Loop(_, _)
        Loop(i, m) ==
            IF i >= width * height THEN m
            ELSE IF /\ m[i] = 0
                    /\ \E n \in Neighbours(i, width, height) : IsBackground(m[n])
            THEN Loop(i + 1, [m EXCEPT ![i] = 2])
            ELSE Loop(i + 1, m)
    IN  Loop(0, mask)

\* 327-380: the mask after the fill and the feathering, 0 foreground,
\* 1 background, 2 feathered edge
BackgroundMask(imageData, bg) ==
    LET background == FloodFill(imageData, bg)
    IN  Feather([i \in 0..(imageData.width * imageData.height - 1) |->
                    IF i \in background THEN 1 ELSE 0],
                imageData.width, imageData.height)

\* removeImageBackground 321-395: the ImageData put back on the canvas
removeImageBackground(imageData) ==
    LET mask == BackgroundMask(imageData, getEdgeColor(imageData))
    IN  [imageData EXCEPT !.data =
            [i \in DOMAIN imageData.data |->
                IF mask[i] = 1 THEN [imageData.data[i] EXCEPT !.a = 0]
                ELSE IF mask[i] = 2
                THEN [imageData.data[i] EXCEPT !.a = imageData.data[i].a \div 2]
                ELSE imageData.data[i]]]

\* 5x5 images with a border of one colour, the only size at which a pixel is
\* neither on the border nor next to it
FramedImageDatas ==
    {[width |-> 5, height |-> 5,
      data |-> [i \in 0..24 |-> IF i \in EdgePixels(5, 5) THEN border
                                ELSE inner[i]]] :
        border \in PixelValues,
        inner \in [(0..24) \ EdgePixels(5, 5) -> PixelValues]}

RemoveBackgroundInit ==
    /\ fin \in ImageDatas \cup FramedImageDatas
    /\ fout = NotApplied
    /\ Standstill

RemoveBackgroundApply ==
    /\ fout = NotApplied
    /\ fout' = <<removeImageBackground(fin)>>
    /\ UNCHANGED <<fin, notfun>>

RemoveBackgroundSpec == RemoveBackgroundInit /\ [][RemoveBackgroundApply]_vars

SingleColour(imageData) ==
    \A i, j \in DOMAIN imageData.data :
        RgbOf(imageData.data[i]) = RgbOf(imageData.data[j])

\* C17: on an image whose pixels all have the same RGB colour the flood fill
\* sets the alpha of every pixel to 0, whatever the width and height
C17_SingleColourCleared ==
    (Applied /\ SingleColour(fin)) =>
        \A i \in DOMAIN Out.data : Out.data[i].a = 0

\* a 3x3 image of one colour, whose centre is reached only by the fill
C17_Witness ==
    /\ Applied
    /\ SingleColour(fin)
    /\ fin.width = 3 /\ fin.height = 3
    /\ fin.data[4].a > 0
    /\ Out.data[4].a = 0

\* ===================================================== UploadDropzone (UI)
MaxBatches == 2

DefaultDimension == 512

\* selectedPreset === null
NoSelection == NoPreset

\* part_000:75-84
defaultOptions ==
    [resizeDimensions |-> [width |-> 512, height |-> 512],
     borderRadius |-> 0,
     format |-> "jpeg",
     quality |-> 90,
     fitOption |-> "cover",
     removeBackground |-> FALSE,
     filenameTemplate |-> DefaultTemplate]

\* parseInt(value, 10): an optional minus sign and the leading digits; <<>>
\* is NaN
ParseInt(value) ==
    LET negative == value # <<>> /\ Head(value) = "-"
        rest == IF negative THEN Tail(value) ELSE value
        isDigit(c) == \E d \in 1..10 : DigitChars[d] = c
        digitsEnd == IF \A k \in 1..Len(rest) : isDigit(rest[k]) THEN Len(rest)
                     ELSE (CHOOSE k \in 1..Len(rest) :
                              /\ ~isDigit(rest[k])
                              /\ \A j \in 1..(k - 1) : isDigit(rest[j])) - 1
        digitValue(c) == (CHOOSE d \in 1..10 : DigitChars[d] = c) - 1
        RECURSIVE Value(_)
        Value(n) == IF n = 0 THEN 0
                    ELSE 10 * Value(n - 1) + digitValue(rest[n])
    IN  IF digitsEnd = 0 THEN <<>>
        ELSE <<IF negative THEN 0 - Value(digitsEnd) ELSE Value(digitsEnd)>>

\* part_000:384-385
hasProcessedImages ==
    Len(ui.images) > 0 /\ \E k \in 1..Len(ui.images) : ui.images[k].processed

isUIDisabled == hasProcessedImages \/ ui.isProcessing

\* the component as mounted: nothing dropped, the default options, and the
\* cached-model flag as localStorage has it (part_000:108-135)
UiInit ==
    /\ \E cached \in BOOLEAN :
         ui = [isModelCached |-> cached,
               showConsentModal |-> FALSE,
               images |-> <<>>,
               isProcessing |-> FALSE,
               overallProgress |-> 0,
               processedImageNames |-> {},
               resizeDimensions |-> defaultOptions.resizeDimensions,
               borderRadius |-> defaultOptions.borderRadius,
               format |-> defaultOptions.format,
               quality |-> defaultOptions.quality,
               fitOption |-> defaultOptions.fitOption,
               selectedPreset |-> NoSelection,
               removeBackground |-> defaultOptions.removeBackground,
               filenameTemplate |-> defaultOptions.filenameTemplate]
    /\ posted = <<>>
    /\ handler = "heur"
    /\ images = <<>>
    /\ options = <<>>
    /\ InitLocals
    /\ fin = <<>>
    /\ fout = <<>>
    /\ inv = <<>>

notui == <<handler, images, options, pc, idx, results, events, processedCount,
           generatedFilenames, timestamp, clock, cur, ticks, outcome, oplog,
           fin, fout, inv>>

\* part_000:143-150: an image as dropped; processed says that processedBlob
\* is set, and an unset field is <<>>
Dropped(id) ==
    [id |-> id, processed |-> FALSE, processedFileName |-> <<>>,
     processedWidth |-> <<>>]

\* part_000:141-152, one file dropped; the dropzone is disabled while
\* processing
OnDrop ==
    /\ ~ui.isProcessing
    /\ Len(ui.images) < MaxImages
    /\ ui' = [ui EXCEPT !.images = Append(@, Dropped(Len(@) + 1))]
    /\ UNCHANGED <<posted, notui>>

\* what can be typed into a width or height input
DimensionValues == {<<>>, <<"-", "1">>, <<"e">>}

\* part_000:195-206
handleDimensionChange(name, value) ==
    /\ ~isUIDisabled
    /\ LET cleared == [ui EXCEPT !.selectedPreset = NoSelection]
       IN  ui' = IF value = <<>>
                 THEN [cleared EXCEPT !.resizeDimensions[name] = 0]
                 ELSE IF ParseInt(value) # <<>>
                 THEN [cleared EXCEPT !.resizeDimensions[name] = ParseInt(value)[1]]
                 ELSE cleared
    /\ UNCHANGED <<posted, notui>>

\* part_000:218-224
handleRemoveBackgroundChange(checked) ==
    /\ ~isUIDisabled
    /\ ui' = [ui EXCEPT !.removeBackground = checked,
                        !.format = IF checked /\ @ = "jpeg" THEN "png" ELSE @]
    /\ UNCHANGED <<posted, notui>>

\* `dimension || 512`
OrDefault(dimension) == IF dimension # 0 THEN dimension ELSE DefaultDimension

\* part_000:266-285: the message handed to worker.postMessage
WorkerRequest ==
    LET effectiveFormat == EffectiveFormat(ui.format, ui.removeBackground)
    IN  [images |-> [k \in 1..Len(ui.images) |-> ui.images[k].id],
         options |->
            [resize |-> [width |-> OrDefault(ui.resizeDimensions.width),
                         height |-> OrDefault(ui.resizeDimensions.height),
                         fit |-> ui.fitOption],
             borderRadius |-> ui.borderRadius,
             format |-> effectiveFormat,
             quality |-> IF effectiveFormat = "png" THEN NoQuality
                         ELSE <<ui.quality>>,
             removeBackground |-> ui.removeBackground,
             filenameTemplate |-> ui.filenameTemplate,
             presetName |-> ui.selectedPreset]]

\* part_000:260-331: a worker is created, given the batch, and listened to;
\* posted holds the requests of the workers still listened to
startProcessing(state) ==
    /\ Len(posted) < MaxBatches
    /\ posted' = Append(posted, WorkerRequest)
    /\ ui' = [state EXCEPT !.isProcessing = TRUE,
                           !.overallProgress = 0,
                           !.processedImageNames = {}]

\* the model download is never announced
NeedsConsentNever == FALSE

\* part_000:251: removeBackground && !isModelCached
NeedsConsent == ui.removeBackground /\ ~ui.isModelCached

\* part_000:247-257, behind the Process button (649)
handleProcessImages ==
    /\ ~isUIDisabled
    /\ ~(Len(ui.images) = 0 \/ ui.isProcessing)
    /\ IF NeedsConsent
       THEN /\ ui' = [ui EXCEPT !.showConsentModal = TRUE]
            /\ UNCHANGED posted
       ELSE startProcessing(ui)
    /\ UNCHANGED notui

\* part_000:423
ConsentCancel ==
    /\ ui.showConsentModal
    /\ ui' = [ui EXCEPT !.showConsentModal = FALSE]
    /\ UNCHANGED <<posted, notui>>

\* part_000:429-432
ConsentConfirm ==
    /\ ui.showConsentModal
    /\ startProcessing([ui EXCEPT !.showConsentModal = FALSE])
    /\ UNCHANGED notui

Without(s, b) == SubSeq(s, 1, b - 1) \o SubSeq(s, b + 1, Len(s))

\* the first result, whatever the id
FindResultFirst(processedResults, id) ==
    IF processedResults = <<>> THEN <<>> ELSE <<processedResults[1]>>

\* part_000:307: processedResults.find(p => p.originalId === img.id); <<>>
\* is undefined
FindResult(processedResults, id) ==
    LET matching == {j \in 1..Len(processedResults) :
                        processedResults[j].originalId = id}
    IN  IF matching = {} THEN <<>>
        ELSE <<processedResults[CHOOSE j \in matching :
                                   \A i \in matching : j <= i]>>

\* part_000:306-320: setImages(currentImages => currentImages.map(...))
ApplyResults(currentImages, processedResults) ==
    [k \in 1..Len(currentImages) |->
        LET img == currentImages[k]
            result == FindResult(processedResults, img.id)
        IN  IF result = <<>> \/ result[1].filename = <<>> THEN img
            ELSE [img EXCEPT !.processed = TRUE,
                             !.processedFileName = result[1].filename,
                             !.processedWidth = <<result[1].width>>]]

\* heur 520-528: the result of the k-th image of a request, under a name
\* that ends in the format
ResultOf(request, k) ==
    [originalId |-> request.images[k],
     filename |-> <<"a", ".">> \o FormatStr(request.options.format),
     width |-> request.options.resize.width]

\* heur 544-547: the results of the images that were not skipped, in the
\* order of the request
DoneResults(request, processed) ==
    SelectSeq([k \in 1..Len(request.images) |-> ResultOf(request, k)],
              LAMBDA r : r.originalId \in processed)

\* the images of a request that the worker can encode: none when the canvas
\* cannot be made (heur 416), otherwise any that is not skipped
Encodable(request) ==
    IF CanvasThrows(request.options.resize.width, request.options.resize.height)
    THEN {}
    ELSE {request.images[k] : k \in 1..Len(request.images)}

\* part_000:296-323: worker b posts 'done' with results for some of its
\* images; the handler uses the removeBackground of the render that started it
WorkerDone(b, processed) ==
    /\ b \in 1..Len(posted)
    /\ processed \subseteq Encodable(posted[b])
    /\ ui' = [ui EXCEPT
                !.isModelCached = @ \/ posted[b].options.removeBackground,
                !.images = ApplyResults(@, DoneResults(posted[b], processed)),
                !.isProcessing = FALSE]
    /\ posted' = Without(posted, b)
    /\ UNCHANGED notui

\* part_000:326-330: the worker script threw; its handler is gone
WorkerError(b) ==
    /\ b \in 1..Len(posted)
    /\ ui' = [ui EXCEPT !.isProcessing = FALSE]
    /\ posted' = Without(posted, b)
    /\ UNCHANGED notui

\* part_000:333-357, behind the Reset button (651)
handleResetEffects ==
    /\ hasProcessedImages /\ ~ui.isProcessing
    /\ ui' = [ui EXCEPT
                !.images = [k \in 1..Len(@) |-> Dropped(@[k].id)],
                !.resizeDimensions = defaultOptions.resizeDimensions,
                !.borderRadius = defaultOptions.borderRadius,
                !.format = defaultOptions.format,
                !.quality = defaultOptions.quality,
                !.fitOption = defaultOptions.fitOption,
                !.removeBackground = defaultOptions.removeBackground,
                !.filenameTemplate = defaultOptions.filenameTemplate,
                !.selectedPreset = NoSelection]
    /\ UNCHANGED <<posted, notui>>

UiNext ==
    \/ OnDrop
    \/ \E name \in {"width", "height"}, value \in DimensionValues :
          handleDimensionChange(name, value)
    \/ \E checked \in BOOLEAN : handleRemoveBackgroundChange(checked)
    \/ handleProcessImages
    \/ ConsentCancel
    \/ ConsentConfirm
    \/ \E b \in 1..MaxBatches, processed \in SUBSET (1..MaxImages) :
          WorkerDone(b, processed)
    \/ \E b \in 1..MaxBatches : WorkerError(b)
    \/ handleResetEffects

UiSpec == UiInit /\ [][UiNext]_vars

\* C18: the width and height of every request submitted to the worker are
\* positive integers: zero or unset is submitted as 512, and no sequence of
\* edits of the inputs makes a submitted value zero or negative
C18_SubmittedDimensionsPositive ==
    \A b \in 1..Len(posted) :
        /\ posted[b].options.resize.width > 0
        /\ posted[b].options.resize.height > 0

\* ================== two batch messages handled by one worker (heur handler)
\* self.onmessage is async: a second message is handled while the first
\* invocation waits at an await, each invocation with its own locals
InvocationIds == {1, 2}

ConcurrentTemplates == {DefaultTemplate, <<"{name}", ".", "{ext}">>}

\* the options of the batches: a valid canvas, PNG, no background removal
ConcurrentOptions ==
    [resize : {[width |-> 4, height |-> 2, fit |-> "cover"]},
     borderRadius : {0},
     format : {"png"},
     quality : {NoQuality},
     removeBackground : {FALSE},
     filenameTemplate : ConcurrentTemplates,
     presetName : {NoPreset}]

\* a message waiting in the worker's queue
Queued(batchImages, batchOptions) ==
    [images |-> batchImages, options |-> batchOptions, pc |-> "idle", idx |-> 0,
     results |-> <<>>, generatedFilenames |-> {}, timestamp |-> 0,
     events |-> <<>>]

ConcurrentInit ==
    /\ \E batchOptions \in ConcurrentOptions :
         inv \in [InvocationIds ->
                    {Queued(ImagesOf(n), batchOptions) :
                        n \in SeqsUpTo(DetailNames, MaxImages)}]
    /\ handler = "heur"
    /\ images = <<>>
    /\ options = <<>>
    /\ InitLocals
    /\ fin = <<>>
    /\ fout = <<>>
    /\ ui = <<>>
    /\ posted = <<>>

notinv == <<handler, images, options, pc, idx, results, events, processedCount,
            generatedFilenames, timestamp, clock, cur, ticks, outcome, oplog,
            fin, fout, ui, posted>>

\* one Set for all invocations, declared outside the handler
RegistryOfWorker(b) == UNION {inv[c].generatedFilenames : c \in InvocationIds}

\* heur 404: the Set the invocation checks names against
Registry(b) == inv[b].generatedFilenames

\* the loop of invocation b moves past image k
InvContinue(b, k, local) ==
    inv' = [inv EXCEPT ![b] =
              IF k >= Len(local.images)
              THEN [local EXCEPT !.pc = "done", !.idx = k,
                                 !.events = Append(@, DoneMsg(local.results))]
              ELSE [local EXCEPT !.pc = "decode", !.idx = k + 1]]

\* heur 397-411: the message is taken and runs to the first await
InvOnMessage(b) ==
    /\ inv[b].pc = "idle"
    /\ InvContinue(b, 0, [inv[b] EXCEPT !.results = <<>>,
                                        !.generatedFilenames = {},
                                        !.timestamp = clock])
    /\ UNCHANGED notinv

\* heur 411 rejected, or getContext returned null (417): the image is skipped
InvDecodeSkip(b) ==
    /\ inv[b].pc = "decode"
    /\ InvContinue(b, inv[b].idx, inv[b])
    /\ UNCHANGED notinv

\* heur 411-499: decoded and drawn, convertToBlob is called
InvDecodeResolve(b) ==
    /\ inv[b].pc = "decode"
    /\ inv' = [inv EXCEPT ![b].pc = "encode"]
    /\ UNCHANGED notinv

\* heur 499 rejected or resolved with no blob: the image is skipped
InvEncodeSkip(b) ==
    /\ inv[b].pc = "encode"
    /\ InvContinue(b, inv[b].idx, inv[b])
    /\ UNCHANGED notinv

\* heur 499-536: the blob is named, registered, appended and reported
InvEncodeResolve(b) ==
    /\ inv[b].pc = "encode"
    /\ LET local == inv[b]
           image == local.images[local.idx]
           w == local.options.resize.width
           h == local.options.resize.height
           format == EffectiveFormat(local.options.format,
                                     local.options.removeBackground)
           blob == [type |-> format,
                    quality |-> HeurQualityArg(format, local.options.quality)]
           baseFilename == parseFilenameTemplate(local.options.filenameTemplate,
                                                 image.name, w, h, format,
                                                 local.options.presetName,
                                                 local.timestamp, local.idx - 1)
           finalFilename == getUniqueFilename(baseFilename, Registry(b))
           newResults == Append(local.results,
                                Result(blob, finalFilename, w, h, image.id, format))
       IN  InvContinue(b, local.idx,
                       [local EXCEPT
                          !.generatedFilenames = @ \cup {finalFilename},
                          !.results = newResults,
                          !.events = Append(@, ProgressMsg(
                                                   HeurProgressCount(local.idx - 1,
                                                                     Len(newResults)),
                                                   Len(local.images), image.name))])
    /\ UNCHANGED notinv

ConcurrentNext ==
    \E b \in InvocationIds :
        \/ InvOnMessage(b)
        \/ InvDecodeSkip(b)
        \/ InvDecodeResolve(b)
        \/ InvEncodeSkip(b)
        \/ InvEncodeResolve(b)

ConcurrentSpec == ConcurrentInit /\ [][ConcurrentNext]_vars

FilenamesOf(res) == {res[k].filename : k \in 1..Len(res)}

\* the name result k of invocation b gets when only b's own batch counts:
\* its template expansion, made unique against b's earlier results
NameInOwnBatch(b, k) ==
    LET local == inv[b]
        r == local.results[k]
        base == parseFilenameTemplate(local.options.filenameTemplate,
                                      local.images[r.originalId].name,
                                      r.width, r.height, r.nameFormat,
                                      local.options.presetName, local.timestamp,
                                      r.originalId - 1)
    IN  getUniqueFilename(base, FilenamesOf(SubSeq(local.results, 1, k - 1)))

\* C20: the filename registry belongs to one batch: it is empty when the batch
\* starts, it always equals the set of filenames of the results appended so
\* far, and the names given in one batch do not depend on any other batch,
\* also when two batches interleave in one worker
C20_RegistryPerBatch ==
    \A b \in InvocationIds :
        /\ inv[b].pc = "idle" => inv[b].generatedFilenames = {}
        /\ inv[b].results = <<>> => inv[b].generatedFilenames = {}
        /\ inv[b].generatedFilenames = FilenamesOf(inv[b].results)
        /\ Cardinality(inv[b].generatedFilenames) = Len(inv[b].results)
        /\ \A k \in 1..Len(inv[b].results) :
              inv[b].results[k].filename = NameInOwnBatch(b, k)

\* both invocations are between awaits, each has named an image, and the two
\* batches gave out the same name
C20_Witness ==
    /\ inv[1].pc \in {"decode", "encode"}
    /\ inv[2].pc \in {"decode", "encode"}
    /\ Len(inv[1].results) = 1
    /\ Len(inv[2].results) = 1
    /\ inv[1].results[1].filename = inv[2].results[1].filename

\* what the handler named by impl draws for a fit option
DrawnFor(impl, imgWidth, imgHeight, canvasWidth, canvasHeight, fit) ==
    IF impl = "ext"
    THEN calculateDrawDimensions(imgWidth, imgHeight, canvasWidth, canvasHeight, fit)
    ELSE HeurResizeAndFit(imgWidth, imgHeight, canvasWidth, canvasHeight, fit)

\* C22: cover and crop are computed identically: for every source and target
\* size the source and destination rectangles drawn for cover are those drawn
\* for crop
C22_CoverIsCrop ==
    (Applied /\ fin.fit = "cover") =>
        Out = DrawnFor(fin.impl, fin.imgWidth, fin.imgHeight,
                       fin.canvasWidth, fin.canvasHeight, "crop")

\* the pixels joined to the border by a 4-connected path of pixels that all
\* match the background colour
ConnectedToBorder(imageData, bg) ==
    LET matches(i) == CloserThan(imageData.data[i], bg, Tolerance)
        RECURSIVE Grow(_)
        Grow(S) ==
            LET more == {n \in DOMAIN imageData.data :
                            /\ n \notin S
                            /\ matches(n)
                            /\ \E i \in S : n \in Neighbours(i, imageData.width, imageData.height)}
            IN  IF more = {} THEN S ELSE Grow(S \cup more)
    IN  Grow({i \in EdgePixels(imageData.width, imageData.height) : matches(i)})

\* C23: the flood fill sets a pixel's alpha to 0 only if a 4-connected path of
\* pixels within tolerance of the background colour joins it to a border pixel
C23_ClearedOnlyThroughMatchingPath ==
    Applied =>
        \A i \in DOMAIN Out.data :
            Out.data[i].a = 0 => i \in ConnectedToBorder(fin, getEdgeColor(fin))

\* C24: every pixel whose alpha is set to 0, border pixels included, is closer
\* to the estimated background colour than the tolerance
C24_ClearedPixelsMatch ==
    Applied =>
        \A i \in DOMAIN Out.data :
            Out.data[i].a = 0 =>
                CloserThan(fin.data[i], getEdgeColor(fin), Tolerance)

\* a pixel outside the background set with a 4-neighbour inside it
NextToBackground(i, imageData, background) ==
    /\ i \notin background
    /\ \E n \in Neighbours(i, imageData.width, imageData.height) : n \in background

\* C25: background pixels get alpha 0; a pixel outside the background is
\* feathered exactly when a 4-neighbour is background, and gets half its
\* alpha rounded down; every other pixel keeps its alpha; no RGB value changes
C25_ThreeClasses ==
    Applied =>
        LET background == FloodFill(fin, getEdgeColor(fin))
        IN  \A i \in DOMAIN Out.data :
                /\ RgbOf(Out.data[i]) = RgbOf(fin.data[i])
                /\ Out.data[i].a =
                       IF i \in background THEN 0
                       ELSE IF NextToBackground(i, fin, background)
                       THEN fin.data[i].a \div 2
                       ELSE fin.data[i].a

\* a 5x5 image whose centre keeps its alpha although its four neighbours were
\* feathered
C25_Witness ==
    /\ Applied
    /\ fin.width = 5 /\ fin.height = 5
    /\ Out.data[12] = fin.data[12]
    /\ \A n \in Neighbours(12, 5, 5) :
           /\ Out.data[n].a = fin.data[n].a \div 2
           /\ Out.data[n].a # 0

EdgeColorInit ==
    /\ fin \in ImageDatas
    /\ fout = NotApplied
    /\ Standstill

EdgeColorApply ==
    /\ fout = NotApplied
    /\ fout' = <<getEdgeColor(fin)>>
    /\ UNCHANGED <<fin, notfun>>

EdgeColorSpec == EdgeColorInit /\ [][EdgeColorApply]_vars

\* the border pixels of a colour, each counted once
BorderCount(imageData, c) ==
    Cardinality({i \in EdgePixels(imageData.width, imageData.height) :
                    RgbOf(imageData.data[i]) = c})

\* the colours that no other colour outnumbers on the border
MostFrequent(imageData) ==
    LET colours == {RgbOf(imageData.data[i]) :
                        i \in EdgePixels(imageData.width, imageData.height)}
    IN  {c \in colours :
            \A d \in colours : BorderCount(imageData, d) <= BorderCount(imageData, c)}

\* the position in the sampling order where a colour is first seen
FirstSeen(imageData, c) ==
    LET samples == SamplePoints(imageData.width, imageData.height)
    IN  CHOOSE k \in 1..Len(samples) :
            /\ RgbOf(imageData.data[samples[k]]) = c
            /\ \A j \in 1..(k - 1) : RgbOf(imageData.data[samples[j]]) # c

\* C26: the estimated background colour is the most frequent RGB triple
\* among the border pixels, each border pixel counted once, and of several
\* equally frequent triples the one seen first
C26_MostFrequentBorderColour ==
    Applied =>
        /\ Out \in MostFrequent(fin)
        /\ \A c \in MostFrequent(fin) : FirstSeen(fin, Out) <= FirstSeen(fin, c)

\* one image, with and without background removal and rounded corners
MaskInit ==
    /\ handler \in {"ext", "heur"}
    /\ images \in {ImagesOf(n) : n \in SeqsUpTo(DetailNames, MaxImages)}
    /\ options \in [resize : {[width |-> 4, height |-> 2, fit |-> "cover"]},
                    borderRadius : {0, 1},
                    format : Formats,
                    quality : {<<90>>},
                    removeBackground : BOOLEAN,
                    filenameTemplate : {DefaultTemplate},
                    presetName : {NoPreset}]
    /\ InitLocals
    /\ NoOthers

MaskSpec == MaskInit /\ [][Next]_vars

\* the segmentation of image k is logged before position j
SegmentedBefore(k, j) == \E i \in 1..(j - 1) : oplog[i] = <<"segment", k>>

\* C21: with removeBackground and a corner radius above 0 the segmentation of
\* an image runs before its corner clip or mask, and in the encoded canvas a
\* pixel is opaque only if it is foreground and inside the rounded rectangle
C21_MasksIntersect ==
    (options.removeBackground /\ options.borderRadius > 0) =>
        /\ \A j \in 1..Len(oplog) :
               oplog[j][1] \in {"clip", "mask"} => SegmentedBefore(oplog[j][2], j)
        /\ \A k \in 1..Len(results) :
               \A p \in PixelClasses :
                   results[k].blob.alpha[p] = 1 => (p.foreground /\ p.inside)

\* an encoded image of a batch with both options, in which the foreground
\* inside the rounded rectangle stayed opaque
C21_Witness ==
    /\ options.removeBackground
    /\ options.borderRadius > 0
    /\ \E k \in 1..Len(results) :
           /\ results[k].blob.alpha[[foreground |-> TRUE, inside |-> TRUE]] = 1
           /\ \E j \in 1..Len(oplog) : oplog[j][1] \in {"clip", "mask"}

\* C27: at most one batch is in flight, and isProcessing is true for as
\* long as a worker has not had its 'done' or its error handled
C27_OneBatchInFlight ==
    /\ Len(posted) <= 1
    /\ Len(posted) = 1 => ui.isProcessing

\* the options of the form
FormOptions(state) ==
    <<state.resizeDimensions, state.borderRadius, state.format, state.quality,
      state.fitOption, state.selectedPreset, state.removeBackground,
      state.filenameTemplate>>

\* C28: a batch with removeBackground is started while the model is not
\* marked as cached only by the confirm button of the consent dialog;
\* Process Images in that state only opens the dialog, and Cancel starts no
\* worker and leaves images, options and isProcessing as they were
C28_ConsentGate ==
    [][/\ (/\ Len(posted') > Len(posted)
           /\ posted'[Len(posted')].options.removeBackground
           /\ ~ui.isModelCached)
          => (ui.showConsentModal /\ ~ui'.showConsentModal)
       /\ (handleProcessImages /\ ui.removeBackground /\ ~ui.isModelCached)
          => (/\ posted' = posted
              /\ ui' = [ui EXCEPT !.showConsentModal = TRUE])
       /\ ConsentCancel
          => (/\ posted' = posted
              /\ ui'.images = ui.images
              /\ FormOptions(ui') = FormOptions(ui)
              /\ ui'.isProcessing = ui.isProcessing)]_vars

\* a batch with removeBackground in flight, started from the dialog while the
\* model is not marked as cached
C28_Witness ==
    /\ ~ui.isModelCached
    /\ ~ui.showConsentModal
    /\ ui.isProcessing
    /\ \E b \in 1..Len(posted) : posted[b].options.removeBackground

\* C29: the cached flag becomes true only when a batch with removeBackground
\* ends with a result for at least one image, never after empty results
C29_CachedOnlyOnSuccess ==
    [][(~ui.isModelCached /\ ui'.isModelCached)
       => \E k \in 1..Len(ui'.images) : ui'.images[k].processed]_vars

\* sequences without repetition
DistinctSeqs(S, n) ==
    {s \in SeqsUpTo(S, n) : \A i, j \in 1..Len(s) : s[i] = s[j] => i = j}

\* two results a worker can return for an image
ResultVariant(id, v) ==
    [originalId |-> id,
     filename |-> IF v = 1 THEN <<"a", ".", "p", "n", "g">>
                  ELSE <<"a", "-", "1", ".", "p", "n", "g">>,
     width |-> IF v = 1 THEN 512 ELSE 4]

\* an image that an earlier batch has processed
Processed(id) ==
    [Dropped(id) EXCEPT !.processed = TRUE,
                        !.processedFileName = ResultVariant(id, 1).filename,
                        !.processedWidth = <<ResultVariant(id, 1).width>>]

\* the images of the component when 'done' arrives, and the results of a
\* worker; the ids of either are distinct, and removed images leave results
\* without an image
DoneInit ==
    /\ \E ids \in DistinctSeqs(1..(MaxImages + 1), MaxImages),
          done \in SUBSET (1..MaxImages),
          rids \in DistinctSeqs(1..(MaxImages + 1), MaxImages),
          variants \in [1..MaxImages -> {1, 2}] :
         fin = [images |-> [k \in 1..Len(ids) |->
                               IF k \in done THEN Processed(ids[k])
                               ELSE Dropped(ids[k])],
                results |-> [k \in 1..Len(rids) |->
                                ResultVariant(rids[k], variants[k])]]
    /\ fout = NotApplied
    /\ Standstill

DoneApply ==
    /\ fout = NotApplied
    /\ fout' = <<ApplyResults(fin.images, fin.results)>>
    /\ UNCHANGED <<fin, notfun>>

DoneSpec == DoneInit /\ [][DoneApply]_vars

\* the positions of the results that carry an id
Matching(processedResults, id) ==
    {j \in 1..Len(processedResults) : processedResults[j].originalId = id}

\* C30: handling 'done' gives an image the processed fields exactly when the
\* results hold an entry with its id as originalId, and from that entry; an
\* image without such an entry is unchanged, and the ids keep their order
C30_MatchedById ==
    Applied =>
        /\ Len(Out) = Len(fin.images)
        /\ \A k \in 1..Len(Out) :
               /\ Out[k].id = fin.images[k].id
               /\ IF Matching(fin.results, fin.images[k].id) = {}
                  THEN Out[k] = fin.images[k]
                  ELSE \E j \in Matching(fin.results, fin.images[k].id) :
                          /\ Out[k].processed
                          /\ Out[k].processedFileName = fin.results[j].filename
                          /\ Out[k].processedWidth = <<fin.results[j].width>>

\* an image takes the fields of the second result, which differ from those
\* of the first, and another image has no result and stays as it was
C30_Witness ==
    /\ Applied
    /\ Len(fin.results) > 1
    /\ fin.results[1].filename # fin.results[2].filename
    /\ \E k \in 1..Len(Out) :
           /\ fin.results[2].originalId = Out[k].id
           /\ ~fin.images[k].processed
           /\ Out[k].processedFileName = fin.results[2].filename
    /\ \E k \in 1..Len(Out) :
           /\ Matching(fin.results, Out[k].id) = {}
           /\ Out[k] = fin.images[k]

====
